---- MODULE Spec2Model ----
(***************************************************************************)
(* Daikin S21 master-side driver (components/daikin_s21/s21.cpp).          *)
(*                                                                         *)
(* DaikinSerial is the byte-level framing state machine (handle_rx,        *)
(* service, send_frame); DaikinS21 is the session that schedules frames    *)
(* (tx_next), decodes answers (parse_ack), prunes the query pool           *)
(* (handle_nak, refine_queries) and reacts to each tick (loop).            *)
(*                                                                         *)
(* Bytes are naturals 0..255.  A command code is the sequence of its       *)
(* bytes.  The query pool is a sequence; the iterator current_query is     *)
(* the 1-based index of the entry it denotes, Len(queries)+1 being end().  *)
(***************************************************************************)
EXTENDS Integers, Sequences, FiniteSets, TLC

\* ------------------------------------------------------------ constants

STX == 2
ETX == 3
ENQ == 5
ACK == 6
NAK == 21

\* s21.h is not among the sources: sizes from the specification's frame
\* layout (command of at most 2 bytes, payload of 4 bytes).
S21_MAX_COMMAND_SIZE == 2
S21_PAYLOAD_SIZE == 4

\* s21.h is not among the sources: the three intervals in abstract clock
\* units, ordered as the specification orders them (the error cooldown is
\* the longest).
S21_RESPONSE_TURNAROUND == 1
S21_RESPONSE_TIMEOUT == 2
S21_ERROR_TIMEOUT == 3

\* The elapsed time millis() - last_event_time is kept up to the first value
\* that exceeds every interval; beyond it no comparison changes.
ElapsedCap == S21_ERROR_TIMEOUT + 1

\* Command codes, as their ASCII bytes.
D1 == <<68, 49>>
D5 == <<68, 53>>
F1 == <<70, 49>>
F5 == <<70, 53>>
F9 == <<70, 57>>
Rd == <<82, 100>>
RH == <<82, 72>>
RI == <<82, 73>>
Ra == <<82, 97>>
RL == <<82, 76>>
RG == <<82, 71>>

\* ------------------------------------------------------------ helpers

Min(a, b) == IF a < b THEN a ELSE b

RECURSIVE SumSeq(_)
SumSeq(s) == IF s = <<>> THEN 0 ELSE Head(s) + SumSeq(Tail(s))

\* std::accumulate into a uint8_t: the sum truncated to 8 bits.
Sum8(s) == SumSeq(s) % 256

\* The first n elements of s, and s without them.
Take(s, n) == SubSeq(s, 1, Min(n, Len(s)))
Drop(s, n) == SubSeq(s, Min(n, Len(s)) + 1, Len(s))

\* vector::erase of the entry at index i.
Erase(s, i) == SubSeq(s, 1, i - 1) \o SubSeq(s, i + 1, Len(s))

RECURSIVE IndexOf(_, _, _)
IndexOf(s, x, i) ==
  IF i > Len(s) THEN i ELSE IF s[i] = x THEN i ELSE IndexOf(s, x, i + 1)

\* std::find_if over the pool: the index of the first entry equal to x,
\* or Len(s)+1 (end) when there is none.
FindIndex(s, x) == IndexOf(s, x, 1)

\* C integer division, truncating toward zero.
CDiv(a, b) == IF a >= 0 THEN a \div b ELSE -((-a) \div b)

\* ------------------------------------------------------------ codecs

\* bytes_to_num that looks for the sign one byte too far.
bytes_to_num_sign_off_by_one(bytes, len) ==
  LET val == (bytes[1] - 48) + (bytes[2] - 48) * 10 + (bytes[3] - 48) * 100
  IN IF len > 4 /\ bytes[4] = 45 THEN -val ELSE val

\* bytes_to_num: <ones><tens><hundreds><neg/pos>.
bytes_to_num(bytes, len) ==
  LET val == (bytes[1] - 48) + (bytes[2] - 48) * 10 + (bytes[3] - 48) * 100
  IN IF len > 3 /\ bytes[4] = 45 THEN -val ELSE val

temp_bytes_to_c10(bytes) == bytes_to_num(bytes, 4)

temp_f9_byte_to_c10(byte) == (byte \div 2 - 64) * 10

\* c10_to_setpoint_byte, its result stored in a char.
c10_to_setpoint_byte(setpoint) == (CDiv(setpoint + 3, 5) + 28) % 256

\* lroundf(round(setpoint * 2) / 2 * 10.0), the setpoint given in tenths of
\* a degree: the nearest half degree, halves rounded away from zero.
RoundHalfDegree(c10) ==
  IF c10 >= 0 THEN 5 * ((2 * c10 + 5) \div 10)
  ELSE -(5 * ((2 * (-c10) + 5) \div 10))

\* ------------------------------------------------------------ state

VARIABLES
  comm_state,           \* DaikinSerial::comm_state
  cooldown_length,      \* DaikinSerial::cooldown_length
  since,                \* millis() - last_event_time, kept up to ElapsedCap
  response,             \* DaikinSerial::response
  rx,                   \* bytes the peer has sent that rx_uart has not yet handed over
  tx_out,               \* bytes the last step wrote to tx_uart
  tx_last,              \* the last frame written to tx_uart
  result,               \* what service() returned to the last loop()
  queries,              \* DaikinS21::queries
  current_query,        \* DaikinS21::current_query, as an index
  tx_command,           \* DaikinS21::tx_command
  activate_climate,
  activate_swing_mode,
  refresh_state,
  pending,              \* DaikinS21::pending
  active,               \* DaikinS21::active
  sensors,              \* temp_inside, temp_outside, temp_coil, fan_rpm, compressor_hz, swing_vertical_angle
  support,              \* support_RH, support_Ra, support_RG
  ready,                \* the readiness bitset, as the set of its set bits
  fault,                \* "none", or the undefined behaviour the driver has executed
  events,               \* how many replies the unit and requests the host have made
  probe                 \* the command and payload the framing is run on

vars == <<comm_state, cooldown_length, since, response, rx, tx_out, tx_last, result,
          queries, current_query, tx_command, activate_climate,
          activate_swing_mode, refresh_state, pending, active, sensors,
          support, ready, fault, events, probe>>

\* The driver's state as one record, which the handlers below transform.
State ==
  [comm_state |-> comm_state, cooldown_length |-> cooldown_length,
   since |-> since, response |-> response, rx |-> rx, tx_out |-> tx_out,
   tx_last |-> tx_last,
   result |-> result, queries |-> queries, current_query |-> current_query,
   tx_command |-> tx_command, activate_climate |-> activate_climate,
   activate_swing_mode |-> activate_swing_mode,
   refresh_state |-> refresh_state, pending |-> pending, active |-> active,
   sensors |-> sensors, support |-> support, ready |-> ready, fault |-> fault]

Becomes(d) ==
  /\ comm_state' = d.comm_state
  /\ cooldown_length' = d.cooldown_length
  /\ since' = d.since
  /\ response' = d.response
  /\ rx' = d.rx
  /\ tx_out' = d.tx_out
  /\ tx_last' = d.tx_last
  /\ result' = d.result
  /\ queries' = d.queries
  /\ current_query' = d.current_query
  /\ tx_command' = d.tx_command
  /\ activate_climate' = d.activate_climate
  /\ activate_swing_mode' = d.activate_swing_mode
  /\ refresh_state' = d.refresh_state
  /\ pending' = d.pending
  /\ active' = d.active
  /\ sensors' = d.sensors
  /\ support' = d.support
  /\ ready' = d.ready
  /\ fault' = d.fault

\* queries.end()
EndOf(q) == Len(q) + 1

\* ------------------------------------------------------------ DaikinSerial

Cooldown(d, length, res) ==
  [d EXCEPT !.comm_state = "Cooldown", !.cooldown_length = length, !.result = res]

\* The ETX branch without its pop_back: the checksum stays in the buffer.
handle_etx_keeps_checksum(d) ==
  IF d.response = <<>>
  THEN [d EXCEPT !.fault = "response_underflow", !.result = "Fault"]
  ELSE LET checksum == d.response[Len(d.response)]
           body == SubSeq(d.response, 1, Len(d.response) - 1)
           calc_checksum == Sum8(body)
       IN IF calc_checksum = checksum \/ (calc_checksum = STX /\ checksum = ENQ)
          THEN Cooldown([d EXCEPT !.tx_out = @ \o <<ACK>>],
                        S21_RESPONSE_TURNAROUND, "Ack")
          ELSE Cooldown(d, S21_ERROR_TIMEOUT, "Error")

\* handle_rx, QueryEtx on ETX: the last byte is the checksum.  On an empty
\* buffer response[size - 1] and pop_back are undefined.
handle_etx(d) ==
  IF d.response = <<>>
  THEN [d EXCEPT !.fault = "response_underflow", !.result = "Fault"]
  ELSE LET checksum == d.response[Len(d.response)]
           body == SubSeq(d.response, 1, Len(d.response) - 1)
           calc_checksum == Sum8(body)
           popped == [d EXCEPT !.response = body]
       IN IF calc_checksum = checksum \/ (calc_checksum = STX /\ checksum = ENQ)
          THEN Cooldown([popped EXCEPT !.tx_out = @ \o <<ACK>>],
                        S21_RESPONSE_TURNAROUND, "Ack")
          ELSE Cooldown(popped, S21_ERROR_TIMEOUT, "Error")

handle_rx(d, byte) ==
  CASE d.comm_state \in {"QueryAck", "CommandAck"} ->
         IF byte = ACK
         THEN IF d.comm_state = "QueryAck"
              THEN [d EXCEPT !.comm_state = "QueryStx", !.result = "Busy"]
              ELSE Cooldown(d, S21_RESPONSE_TURNAROUND, "Ack")
         ELSE IF byte = NAK
              THEN Cooldown(d, S21_RESPONSE_TURNAROUND, "Nak")
              ELSE Cooldown(d, S21_ERROR_TIMEOUT, "Error")
    [] d.comm_state = "QueryStx" ->
         IF byte = STX
         THEN [d EXCEPT !.comm_state = "QueryEtx", !.result = "Busy"]
         ELSE IF byte = ACK
              THEN [d EXCEPT !.result = "Busy"]
              ELSE Cooldown(d, S21_ERROR_TIMEOUT, "Error")
    [] d.comm_state = "QueryEtx" ->
         IF byte # ETX
         THEN LET pushed == [d EXCEPT !.response = Append(@, byte), !.result = "Busy"]
              IN IF Len(pushed.response) > S21_MAX_COMMAND_SIZE + S21_PAYLOAD_SIZE + 1
                 THEN Cooldown(pushed, S21_ERROR_TIMEOUT, "Error")
                 ELSE pushed
         ELSE handle_etx(d)
    [] OTHER -> [d EXCEPT !.result = "Busy"]

\* service()'s read loop: while the result is Busy and a byte is available
\* (n of the bytes in rx have arrived), read it, stamp last_event_time and
\* hand it to handle_rx.
RECURSIVE read_available(_, _)
read_available(d, n) ==
  IF d.result = "Busy" /\ n > 0 /\ d.rx # <<>>
  THEN read_available(
         handle_rx([d EXCEPT !.rx = Tail(@), !.since = 0], Head(d.rx)), n - 1)
  ELSE d

service(d, n) ==
  CASE d.comm_state = "Idle" -> [d EXCEPT !.result = "Idle"]
    [] d.comm_state = "Cooldown" ->
         IF d.since > d.cooldown_length
         THEN [d EXCEPT !.comm_state = "Idle", !.result = "Idle"]
         ELSE [d EXCEPT !.result = "Busy"]
    [] OTHER ->
         IF d.since > S21_RESPONSE_TIMEOUT
         THEN [d EXCEPT !.comm_state = "Idle", !.result = "Timeout"]
         ELSE read_available([d EXCEPT !.result = "Busy"], n)

\* The checksum without the escape of STX.
TxChecksum_unescaped(cmd, payload) == Sum8(cmd \o payload)

\* The checksum byte send_frame transmits.
TxChecksum(cmd, payload) ==
  LET checksum == Sum8(cmd \o payload)
  IN IF checksum = STX THEN ENQ ELSE checksum

\* The wire form of a frame.
Frame(cmd, payload) ==
  <<STX>> \o cmd \o payload \o <<TxChecksum(cmd, payload), ETX>>

\* send_frame that transmits and forgets to leave Idle.
send_frame_stays_idle(d, cmd, payload, n) ==
  IF d.comm_state # "Idle" THEN d
  ELSE IF Len(cmd) > S21_MAX_COMMAND_SIZE THEN d
  ELSE [d EXCEPT !.response = <<>>,
                 !.rx = Drop(@, n),
                 !.tx_out = @ \o Frame(cmd, payload),
                 !.tx_last = Frame(cmd, payload),
                 !.since = 0]

\* send_frame; payload <<>> is the null payload of a query.  n of the bytes
\* in rx have arrived and are discarded by flush_input.
send_frame(d, cmd, payload, n) ==
  IF d.comm_state # "Idle" THEN d
  ELSE IF Len(cmd) > S21_MAX_COMMAND_SIZE THEN d
  ELSE [d EXCEPT !.response = <<>>,
                 !.rx = Drop(@, n),
                 !.tx_out = @ \o Frame(cmd, payload),
                 !.tx_last = Frame(cmd, payload),
                 !.since = 0,
                 !.comm_state = IF payload # <<>> THEN "CommandAck" ELSE "QueryAck"]

\* ------------------------------------------------------------ DaikinS21

\* setup(): the messages to poll.
InitQueries == <<F1, F5, F9, Rd, RH, RI, Ra, RL, RG>>

\* What a read of *queries.end() may yield: a pointer left behind in the
\* vector's storage by an earlier erase, or something that is no string.
Garbage == <<>>
StaleValues == {InitQueries[i] : i \in 1..Len(InitQueries)} \cup {Garbage}

\* refine_queries: exclude F9 once Ra and RH are both supported.
refine_queries(q, sup) ==
  IF "Ra" \in sup /\ "RH" \in sup
  THEN LET f9 == FindIndex(q, F9)
       IN IF f9 # EndOf(q) THEN Erase(q, f9) ELSE q
  ELSE q

\* tx_next: the D1 payload.
ClimatePayload(p) ==
  << IF p.power_on THEN 49 ELSE 48,
     p.mode,
     c10_to_setpoint_byte(RoundHalfDegree(p.setpoint)),
     p.fan >>

\* tx_next: the D5 payload.
SwingPayload(p) ==
  << 48 + (IF p.swing_h /\ p.swing_v THEN 4 ELSE 0)
        + (IF p.swing_h THEN 2 ELSE 0)
        + (IF p.swing_v THEN 1 ELSE 0),
     IF p.swing_v \/ p.swing_h THEN 63 ELSE 48,
     48,
     48 >>

\* tx_next's last branch: start a fresh scan.  With an empty pool
\* *queries.begin() reads past the end: endv is what that read yields.
fresh_scan(d, n, endv) ==
  LET q == refine_queries(d.queries, d.support)
      started == [d EXCEPT !.refresh_state = FALSE, !.queries = q, !.current_query = 1]
  IN IF q # <<>>
     THEN send_frame([started EXCEPT !.tx_command = q[1]], q[1], <<>>, n)
     ELSE IF endv = Garbage
          THEN [started EXCEPT !.fault = "deref_end"]
          ELSE send_frame([started EXCEPT !.tx_command = endv], endv, <<>>, n)

\* tx_next that continues the scan before it looks at the pending commands.
tx_next_scan_first(d, n, endv) ==
  IF d.current_query # EndOf(d.queries)
  THEN LET cur == IF d.current_query > Len(d.queries) THEN endv
                  ELSE d.queries[d.current_query]
       IN IF cur = Garbage
          THEN [d EXCEPT !.fault = "deref_end"]
          ELSE send_frame([d EXCEPT !.tx_command = cur], cur, <<>>, n)
  ELSE IF d.activate_climate
  THEN send_frame([d EXCEPT !.tx_command = D1], D1, ClimatePayload(d.pending), n)
  ELSE IF d.activate_swing_mode
  THEN send_frame([d EXCEPT !.tx_command = D5], D5, SwingPayload(d.pending), n)
  ELSE IF d.refresh_state
  THEN fresh_scan(d, n, endv)
  ELSE d

\* tx_next: select and transmit the next command or query.  A cursor that
\* has been advanced past end is not equal to end: *current_query then reads
\* past the pool (endv is what the read yields).
tx_next(d, n, endv) ==
  IF d.activate_climate
  THEN send_frame([d EXCEPT !.tx_command = D1], D1, ClimatePayload(d.pending), n)
  ELSE IF d.activate_swing_mode
  THEN send_frame([d EXCEPT !.tx_command = D5], D5, SwingPayload(d.pending), n)
  ELSE IF d.current_query # EndOf(d.queries)
  THEN LET cur == IF d.current_query > Len(d.queries) THEN endv
                  ELSE d.queries[d.current_query]
       IN IF cur = Garbage
          THEN [d EXCEPT !.fault = "deref_end"]
          ELSE send_frame([d EXCEPT !.tx_command = cur], cur, <<>>, n)
  ELSE IF d.refresh_state
  THEN fresh_scan(d, n, endv)
  ELSE d

\* is_ready(): all three readiness bits are set.
ReadyBits == {"Basic", "Swing", "Compressor"}

is_ready(d) == d.ready = ReadyBits

\* payload[] of parse_ack is not initialised: the bytes past payload_len
\* hold whatever the stack held (junk).
PadPayload(bytes, junk) ==
  [i \in 1..S21_PAYLOAD_SIZE |-> IF i <= Len(bytes) THEN bytes[i] ELSE junk]

\* rcode[] of parse_ack is zero-initialised.
PadCode(bytes) ==
  [i \in 1..(S21_MAX_COMMAND_SIZE + 1) |-> IF i <= Len(bytes) THEN bytes[i] ELSE 0]

\* payload[0] & mask, as a bool.
BitSet(byte, mask) == (byte \div mask) % 2 = 1

\* parse_ack's switch with a G1 case that takes the fan from the basic state
\* whether or not the fan-mode response has been seen.
decode_g1_sets_fan(d, rcode, payload, payload_len) ==
  CASE rcode[1] = 71 /\ rcode[2] = 49 ->    \* G1, basic state
         [d EXCEPT !.active.power_on = (payload[1] = 49),
                   !.active.mode = payload[2],
                   !.active.setpoint = (payload[3] - 28) * 5,
                   !.active.fan = payload[4],
                   !.ready = @ \cup {"Basic"}]
    [] rcode[1] = 71 /\ rcode[2] = 53 ->    \* G5, swing state
         [d EXCEPT !.active.swing_v = BitSet(payload[1], 1),
                   !.active.swing_h = BitSet(payload[1], 2),
                   !.ready = @ \cup {"Swing"}]
    [] rcode[1] = 71 /\ rcode[2] = 57 ->    \* G9, temperatures
         [d EXCEPT !.sensors.temp_inside = temp_f9_byte_to_c10(payload[1]),
                   !.sensors.temp_outside = temp_f9_byte_to_c10(payload[2])]
    [] rcode[1] = 83 /\ rcode[2] = 71 ->    \* SG, fan mode
         [d EXCEPT !.active.fan = payload[1],
                   !.support = @ \cup {"RG"}]
    [] rcode[1] = 83 /\ rcode[2] = 72 ->    \* SH, inside temperature
         [d EXCEPT !.sensors.temp_inside = temp_bytes_to_c10(payload),
                   !.support = @ \cup {"RH"}]
    [] rcode[1] = 83 /\ rcode[2] = 73 ->    \* SI, coil temperature
         [d EXCEPT !.sensors.temp_coil = temp_bytes_to_c10(payload)]
    [] rcode[1] = 83 /\ rcode[2] = 97 ->    \* Sa, outside temperature
         [d EXCEPT !.sensors.temp_outside = temp_bytes_to_c10(payload),
                   !.support = @ \cup {"Ra"}]
    [] rcode[1] = 83 /\ rcode[2] = 76 ->    \* SL, fan speed
         [d EXCEPT !.sensors.fan_rpm = bytes_to_num(payload, payload_len) * 10]
    [] rcode[1] = 83 /\ rcode[2] = 100 ->   \* Sd, compressor frequency
         [d EXCEPT !.sensors.compressor_hz = bytes_to_num(payload, payload_len),
                   !.ready = @ \cup {"Compressor"}]
    [] rcode[1] = 83 /\ rcode[2] = 67 ->    \* SC, setpoint
         [d EXCEPT !.active.setpoint = bytes_to_num(payload, payload_len)]
    [] rcode[1] = 83 /\ rcode[2] = 78 ->    \* SN, vertical swing angle
         [d EXCEPT !.sensors.swing_vertical_angle = bytes_to_num(payload, 4)]
    [] rcode[1] = 68 ->                     \* D, the fake response of a command
         [d EXCEPT !.activate_climate = IF rcode[2] = 49 THEN FALSE ELSE @,
                   !.activate_swing_mode = IF rcode[2] = 53 THEN FALSE ELSE @,
                   !.refresh_state = TRUE]
    [] OTHER -> d

\* parse_ack's switch over the response code.
decode(d, rcode, payload, payload_len) ==
  CASE rcode[1] = 71 /\ rcode[2] = 49 ->    \* G1, basic state
         [d EXCEPT !.active.power_on = (payload[1] = 49),
                   !.active.mode = payload[2],
                   !.active.setpoint = (payload[3] - 28) * 5,
                   !.active.fan = IF "RG" \notin d.support THEN payload[4] ELSE @,
                   !.ready = @ \cup {"Basic"}]
    [] rcode[1] = 71 /\ rcode[2] = 53 ->    \* G5, swing state
         [d EXCEPT !.active.swing_v = BitSet(payload[1], 1),
                   !.active.swing_h = BitSet(payload[1], 2),
                   !.ready = @ \cup {"Swing"}]
    [] rcode[1] = 71 /\ rcode[2] = 57 ->    \* G9, temperatures
         [d EXCEPT !.sensors.temp_inside = temp_f9_byte_to_c10(payload[1]),
                   !.sensors.temp_outside = temp_f9_byte_to_c10(payload[2])]
    [] rcode[1] = 83 /\ rcode[2] = 71 ->    \* SG, fan mode
         [d EXCEPT !.active.fan = payload[1],
                   !.support = @ \cup {"RG"}]
    [] rcode[1] = 83 /\ rcode[2] = 72 ->    \* SH, inside temperature
         [d EXCEPT !.sensors.temp_inside = temp_bytes_to_c10(payload),
                   !.support = @ \cup {"RH"}]
    [] rcode[1] = 83 /\ rcode[2] = 73 ->    \* SI, coil temperature
         [d EXCEPT !.sensors.temp_coil = temp_bytes_to_c10(payload)]
    [] rcode[1] = 83 /\ rcode[2] = 97 ->    \* Sa, outside temperature
         [d EXCEPT !.sensors.temp_outside = temp_bytes_to_c10(payload),
                   !.support = @ \cup {"Ra"}]
    [] rcode[1] = 83 /\ rcode[2] = 76 ->    \* SL, fan speed
         [d EXCEPT !.sensors.fan_rpm = bytes_to_num(payload, payload_len) * 10]
    [] rcode[1] = 83 /\ rcode[2] = 100 ->   \* Sd, compressor frequency
         [d EXCEPT !.sensors.compressor_hz = bytes_to_num(payload, payload_len),
                   !.ready = @ \cup {"Compressor"}]
    [] rcode[1] = 83 /\ rcode[2] = 67 ->    \* SC, setpoint
         [d EXCEPT !.active.setpoint = bytes_to_num(payload, payload_len)]
    [] rcode[1] = 83 /\ rcode[2] = 78 ->    \* SN, vertical swing angle
         [d EXCEPT !.sensors.swing_vertical_angle = bytes_to_num(payload, 4)]
    [] rcode[1] = 68 ->                     \* D, the fake response of a command
         [d EXCEPT !.activate_climate = IF rcode[2] = 49 THEN FALSE ELSE @,
                   !.activate_swing_mode = IF rcode[2] = 53 THEN FALSE ELSE @,
                   !.refresh_state = TRUE]
    [] OTHER -> d

\* parse_ack: split the response buffer into code and payload and decode.
\* payload_len = response.size() - rcode_len is unsigned: a buffer shorter
\* than the command makes the copy run off both arrays, a longer payload
\* than payload[] runs off payload[].
parse_ack(d, junk) ==
  LET rcode_len == Len(d.tx_command)
  IN IF d.response = <<>>
     THEN decode(d, PadCode(d.tx_command), PadPayload(<<>>, junk), 0)
     ELSE IF Len(d.response) < rcode_len
          THEN [d EXCEPT !.fault = "payload_len_underflow"]
          ELSE IF Len(d.response) - rcode_len > S21_PAYLOAD_SIZE
               THEN [d EXCEPT !.fault = "payload_overflow"]
               ELSE decode([d EXCEPT !.current_query = @ + 1],
                           PadCode(Take(d.response, rcode_len)),
                           PadPayload(Drop(d.response, rcode_len), junk),
                           Len(d.response) - rcode_len)

\* handle_nak that erases the entry after the cursor's.
handle_nak_erases_next(d, junk, endv) ==
  LET at_end == d.current_query > Len(d.queries)
      cur == IF at_end THEN endv ELSE d.queries[d.current_query]
  IN IF cur = Garbage
     THEN [d EXCEPT !.fault = "deref_end"]
     ELSE IF d.tx_command = cur
          THEN IF at_end
               THEN [d EXCEPT !.fault = "erase_end"]
               ELSE [d EXCEPT !.queries = Erase(@, d.current_query + 1)]
          ELSE parse_ack(d, junk)

\* handle_nak.  With current_query at end or past it, *current_query reads
\* past the pool (endv is what the read yields) and the erase is undefined.
handle_nak(d, junk, endv) ==
  LET at_end == d.current_query > Len(d.queries)
      cur == IF at_end THEN endv ELSE d.queries[d.current_query]
  IN IF cur = Garbage
     THEN [d EXCEPT !.fault = "deref_end"]
     ELSE IF d.tx_command = cur
          THEN IF at_end
               THEN [d EXCEPT !.fault = "erase_end"]
               ELSE [d EXCEPT !.queries = Erase(@, d.current_query)]
          ELSE parse_ack(d, junk)

\* loop() that treats a Timeout as it treats an Error.
loop_timeout_as_error(d, n, junk, endv) ==
  LET s == service(d, n)
  IN CASE s.result = "Ack" -> parse_ack(s, junk)
       [] s.result = "Idle" -> tx_next(s, n, endv)
       [] s.result = "Nak" -> handle_nak(s, junk, endv)
       [] s.result \in {"Error", "Timeout"} ->
            [s EXCEPT !.current_query = EndOf(s.queries),
                      !.refresh_state = TRUE,
                      !.activate_climate = FALSE,
                      !.activate_swing_mode = FALSE]
       [] OTHER -> s

\* loop() that also forgets what it has observed when it aborts the scan.
loop_error_resets_ready(d, n, junk, endv) ==
  LET s == service(d, n)
  IN CASE s.result = "Ack" -> parse_ack(s, junk)
       [] s.result = "Idle" -> tx_next(s, n, endv)
       [] s.result = "Nak" -> handle_nak(s, junk, endv)
       [] s.result = "Error" ->
            [s EXCEPT !.current_query = EndOf(s.queries),
                      !.refresh_state = TRUE,
                      !.activate_climate = FALSE,
                      !.activate_swing_mode = FALSE,
                      !.ready = {}]
       [] OTHER -> s

\* loop() whose Error branch leaves the scan where it was.
loop_error_keeps_scan(d, n, junk, endv) ==
  LET s == service(d, n)
  IN CASE s.result = "Ack" -> parse_ack(s, junk)
       [] s.result = "Idle" -> tx_next(s, n, endv)
       [] s.result = "Nak" -> handle_nak(s, junk, endv)
       [] s.result = "Error" ->
            [s EXCEPT !.refresh_state = TRUE,
                      !.activate_climate = FALSE,
                      !.activate_swing_mode = FALSE]
       [] OTHER -> s

\* loop(): one tick.  n is the number of bytes of rx that have arrived by
\* now, junk and endv what reads of uninitialised and past-the-end memory
\* yield in this tick.
loop(d, n, junk, endv) ==
  LET s == service(d, n)
  IN CASE s.result = "Ack" -> parse_ack(s, junk)
       [] s.result = "Idle" -> tx_next(s, n, endv)
       [] s.result = "Nak" -> handle_nak(s, junk, endv)
       [] s.result = "Error" ->
            [s EXCEPT !.current_query = EndOf(s.queries),
                      !.refresh_state = TRUE,
                      !.activate_climate = FALSE,
                      !.activate_swing_mode = FALSE]
       [] OTHER -> s

\* update(): the periodic refresh request.
update(d) == [d EXCEPT !.refresh_state = TRUE]

set_daikin_climate_settings(d, power_on, mode, setpoint, fan_mode) ==
  [d EXCEPT !.pending.power_on = power_on,
            !.pending.mode = mode,
            !.pending.setpoint = setpoint,
            !.pending.fan = fan_mode,
            !.activate_climate = TRUE]

set_swing_settings(d, swing_v, swing_h) ==
  [d EXCEPT !.pending.swing_v = swing_v,
            !.pending.swing_h = swing_h,
            !.activate_swing_mode = TRUE]

\* ------------------------------------------------------------ the peer

\* The response code that answers a query: F -> G, R -> S.
Answer(cmd) == IF cmd = <<>> THEN <<>> ELSE [cmd EXCEPT ![1] = @ + 1]

\* One payload for each response code the unit sends.
AnswerPayload(rcode) ==
  CASE rcode = <<71, 49>> -> <<49, 51, 78, 51>>     \* G1: on, cool, 25.0 C, fan 3
    [] rcode = <<71, 53>> -> <<51, 63, 48, 48>>     \* G5: both axes
    [] rcode = <<71, 57>> -> <<178, 170, 48, 48>>   \* G9: 25 C inside, 21 C outside
    [] rcode = <<83, 100>> -> <<48, 53, 48, 43>>    \* Sd: 50 Hz
    [] rcode = <<83, 72>> -> <<53, 52, 50, 43>>     \* SH: 24.5 C
    [] rcode = <<83, 73>> -> <<48, 50, 49, 45>>     \* SI: -12.0 C
    [] rcode = <<83, 97>> -> <<53, 49, 50, 43>>     \* Sa: 21.5 C
    [] rcode = <<83, 76>> -> <<48, 56, 48, 43>>     \* SL: 80
    [] rcode = <<83, 71>> -> <<65, 48, 48, 48>>     \* SG: fan auto
    [] OTHER -> <<48, 48, 48, 48>>

\* The well-formed replies to the frame the unit last received, and a byte
\* that is no reply (followed by a second one, which the driver leaves unread).
ScanReplies(cmd) ==
  { <<ACK>>,
    <<NAK>>,
    <<ACK>> \o Frame(Answer(cmd), AnswerPayload(Answer(cmd))),
    <<0, 0>> }

\* The replies of a unit that keeps to the protocol: a command is
\* acknowledged or rejected, a query answered or rejected.
ConformingReplies(cmd) ==
  IF cmd # <<>> /\ cmd[1] = 68
  THEN { <<ACK>>, <<NAK>> }
  ELSE { <<ACK>> \o Frame(Answer(cmd), AnswerPayload(Answer(cmd))), <<NAK>> }

\* Those, and a sample of the malformed replies.
PeerReplies(cmd) ==
  ScanReplies(cmd) \cup
  { <<ACK>> \o Frame(D1, <<48, 48, 48, 48>>),       \* an answer with a command's code
    <<ACK>> \o Frame(Answer(cmd), <<>>),            \* an answer with no payload
    <<ACK, STX, 71>>,                               \* the start of a frame
    <<ACK, STX, ETX>>,                              \* an empty frame
    <<ACK, STX, 0, ETX>>,                           \* a frame of a checksum alone
    <<ACK, STX, 71, 71, ETX>>,                      \* a frame of one byte and its checksum
    <<ACK, STX, 71, 49, 0, ETX>>,                   \* a checksum mismatch
    <<ACK, STX, 1, 1, 1, 1, 1, 1, 1, 1>> }          \* an oversize frame

\* ------------------------------------------------------------ inputs

\* The settings a caller requests (setpoint in tenths of a degree).
ClimateInputs ==
  { [power_on |-> TRUE, mode |-> 51, setpoint |-> 223, fan |-> 65],
    [power_on |-> FALSE, mode |-> 52, setpoint |-> 180, fan |-> 53] }

SwingInputs == { <<TRUE, FALSE>> }

\* What an uninitialised payload byte may hold.
JunkBytes == {0, 49}

\* The reads a tick can make of memory the program never wrote: payload[]
\* is read when a response is decoded, *queries.end() when a Nak arrives or
\* a scan starts with the cursor at end.
JunkChoices(d) ==
  IF d.comm_state \in {"QueryAck", "QueryStx", "QueryEtx"} THEN JunkBytes ELSE {0}

EndChoices(d) ==
  IF d.current_query > Len(d.queries) /\ d.comm_state # "QueryStx" /\ d.comm_state # "QueryEtx"
  THEN StaleValues ELSE {Garbage}

\* ------------------------------------------------------------ specification

\* The bounds of the exploration: the replies of the unit and the requests
\* of the host, counted together, under an arbitrary unit (Spec), under one
\* that answers every query or rejects it while the host only asks for
\* refreshes (SpecScan), and under one that keeps to the protocol while the
\* host requests settings (SpecHost).
MaxEvents == 3
MaxScanEvents == 5

NoProbe == [cmd |-> <<>>, payload |-> <<>>, forged |-> FALSE]

Init ==
  /\ comm_state = "Idle"
  /\ cooldown_length = 0
  /\ since = 0
  /\ response = <<>>
  /\ rx = <<>>
  /\ tx_out = <<>>
  /\ tx_last = <<>>
  /\ result = "None"
  /\ queries = InitQueries
  /\ current_query = 1
  /\ tx_command = <<>>
  /\ activate_climate = FALSE
  /\ activate_swing_mode = FALSE
  /\ refresh_state = FALSE
  /\ pending = [power_on |-> FALSE, mode |-> 48, setpoint |-> 0, fan |-> 65,
                swing_v |-> FALSE, swing_h |-> FALSE]
  /\ active = [power_on |-> FALSE, mode |-> 48, setpoint |-> 0, fan |-> 65,
               swing_v |-> FALSE, swing_h |-> FALSE]
  /\ sensors = [temp_inside |-> 0, temp_outside |-> 0, temp_coil |-> 0,
                fan_rpm |-> 0, compressor_hz |-> 0, swing_vertical_angle |-> 0]
  /\ support = {}
  /\ ready = {}
  /\ fault = "none"
  /\ events = 0
  /\ probe = NoProbe

\* The clock: dt passes.  The elapsed time since last_event_time is read
\* only while the link is not Idle, and send_frame restarts it: it is
\* tracked from there until the link is Idle again.
Elapse(d, dt) ==
  IF d.comm_state = "Idle" THEN d ELSE [d EXCEPT !.since = Min(@ + dt, ElapsedCap)]

Disarm(d) == IF d.comm_state = "Idle" THEN [d EXCEPT !.since = 0] ELSE d

\* The host calls loop(); dt of the clock has passed since the last call and
\* either none or all of the bytes the unit has sent have arrived.
Loop ==
  /\ fault = "none"
  /\ \E dt \in 0..1, n \in {0, Len(rx)}, junk \in JunkChoices(State), endv \in EndChoices(State) :
       Becomes(Disarm(loop(Elapse([State EXCEPT !.tx_out = <<>>], dt), n, junk, endv)))
  /\ UNCHANGED <<events, probe>>

\* The host calls update().
Update(max) ==
  /\ fault = "none"
  /\ events < max
  /\ Becomes(update([State EXCEPT !.tx_out = <<>>]))
  /\ events' = events + 1
  /\ UNCHANGED probe

SetClimate(max) ==
  /\ fault = "none"
  /\ events < max
  /\ \E v \in ClimateInputs :
       Becomes(set_daikin_climate_settings([State EXCEPT !.tx_out = <<>>],
                                           v.power_on, v.mode, v.setpoint, v.fan))
  /\ events' = events + 1
  /\ UNCHANGED probe

SetSwing(max) ==
  /\ fault = "none"
  /\ events < max
  /\ \E v \in SwingInputs :
       Becomes(set_swing_settings([State EXCEPT !.tx_out = <<>>], v[1], v[2]))
  /\ events' = events + 1
  /\ UNCHANGED probe

\* The unit, having received a frame, sends one of replies.
PeerSend(replies, max) ==
  /\ fault = "none"
  /\ rx = <<>>
  /\ comm_state \notin {"Idle", "Cooldown"}
  /\ events < max
  /\ \E bytes \in replies :
       Becomes([State EXCEPT !.rx = bytes, !.tx_out = <<>>])
  /\ events' = events + 1
  /\ UNCHANGED probe

Next ==
  \/ Loop
  \/ Update(MaxEvents)
  \/ SetClimate(MaxEvents)
  \/ SetSwing(MaxEvents)
  \/ PeerSend(PeerReplies(tx_command), MaxEvents)

Spec == Init /\ [][Next]_vars

NextScan ==
  \/ Loop
  \/ Update(MaxScanEvents)
  \/ PeerSend(ScanReplies(tx_command), MaxScanEvents)

SpecScan == Init /\ [][NextScan]_vars

NextHost ==
  \/ Loop
  \/ SetClimate(MaxEvents)
  \/ SetSwing(MaxEvents)
  \/ PeerSend(ConformingReplies(tx_command), MaxEvents)

SpecHost == Init /\ [][NextHost]_vars

\* The decoding of the basic state and of the fan mode: whatever the query,
\* the unit answers with a G1 or an SG frame, which the driver decodes by
\* the code the answer carries.
FanReplies ==
  { <<ACK>> \o Frame(<<71, 49>>, <<49, 51, 78, 51>>),   \* G1: on, cool, 25.0 C, fan 3
    <<ACK>> \o Frame(<<71, 49>>, <<48, 52, 64, 53>>),   \* G1: off, heat, 18.0 C, fan 5
    <<ACK>> \o Frame(<<83, 71>>, <<65, 48, 48, 48>>),   \* SG: fan auto
    <<ACK>> \o Frame(<<83, 71>>, <<66, 48, 48, 48>>) }  \* SG: fan quiet

MaxFanEvents == 4

NextFan ==
  \/ Loop
  \/ PeerSend(FanReplies, MaxFanEvents)

SpecFan == Init /\ [][NextFan]_vars

\* The pruning of the pool: the unit rejects a query, or answers it with the
\* inside or the outside temperature.
PruneReplies ==
  { <<NAK>>,
    <<ACK>> \o Frame(<<83, 72>>, <<53, 52, 50, 43>>),   \* SH: 24.5 C
    <<ACK>> \o Frame(<<83, 97>>, <<53, 49, 50, 43>>) }  \* Sa: 21.5 C

MaxPruneEvents == 12

NextPrune ==
  \/ Loop
  \/ Update(MaxPruneEvents)
  \/ PeerSend(PruneReplies, MaxPruneEvents)

SpecPrune == Init /\ [][NextPrune]_vars

\* The termination of an exchange: the unit sends bytes for as long as it
\* likes (an acknowledgment, a frame start, a byte that is neither; each of
\* them is garbage where another byte is expected), the host keeps calling
\* loop() and may request a climate setting, and the clock advances between
\* calls.
LiveReplies == { <<ACK>>, <<STX>>, <<0>> }

MaxLiveRequests == 1

\* loop() called dt after the last call.
Tick(dt) ==
  /\ fault = "none"
  /\ \E n \in {0, Len(rx)}, junk \in JunkChoices(State), endv \in EndChoices(State) :
       Becomes(Disarm(loop(Elapse([State EXCEPT !.tx_out = <<>>], dt), n, junk, endv)))
  /\ UNCHANGED <<events, probe>>

\* The unit sends one of replies while a frame is outstanding, any number
\* of times.
PeerKeepsSending(replies) ==
  /\ fault = "none"
  /\ rx = <<>>
  /\ comm_state \notin {"Idle", "Cooldown"}
  /\ \E bytes \in replies :
       Becomes([State EXCEPT !.rx = bytes, !.tx_out = <<>>])
  /\ UNCHANGED <<events, probe>>

NextLive ==
  \/ Tick(0)
  \/ Tick(1)
  \/ PeerKeepsSending(LiveReplies)
  \/ SetClimate(MaxLiveRequests)

\* loop() is called again and again while the clock advances.
SpecLive == Init /\ [][NextLive]_vars /\ WF_vars(Tick(1))

\* The framing on its own: a command and a payload are drawn, send_frame
\* encodes them (or a frame is built around them with ENQ in the checksum
\* position) and the bytes are handed one at a time to handle_rx, the link
\* in QueryStx.
CodecCommands == { <<>>, <<1>>, <<68, 49>> }

\* Bytes that give every case of the sum: ETX itself, a carry out of 8 bits
\* (128 + 128), and STX after a carry under the two-byte command (117 + 141).
CodecBytes == {0, 1, ETX, 128, 141}

CodecPayloads ==
  { <<a, b, c, e>> : a \in CodecBytes, b \in CodecBytes, c \in CodecBytes, e \in CodecBytes }

CodecInit ==
  /\ comm_state = "Idle"
  /\ cooldown_length = 0
  /\ since = 0
  /\ response = <<>>
  /\ rx = <<>>
  /\ tx_out = <<>>
  /\ tx_last = <<>>
  /\ result = "None"
  /\ queries = InitQueries
  /\ current_query = 1
  /\ tx_command = <<>>
  /\ activate_climate = FALSE
  /\ activate_swing_mode = FALSE
  /\ refresh_state = FALSE
  /\ pending = [power_on |-> FALSE, mode |-> 48, setpoint |-> 0, fan |-> 65,
                swing_v |-> FALSE, swing_h |-> FALSE]
  /\ active = [power_on |-> FALSE, mode |-> 48, setpoint |-> 0, fan |-> 65,
               swing_v |-> FALSE, swing_h |-> FALSE]
  /\ sensors = [temp_inside |-> 0, temp_outside |-> 0, temp_coil |-> 0,
                fan_rpm |-> 0, compressor_hz |-> 0, swing_vertical_angle |-> 0]
  /\ support = {}
  /\ ready = {}
  /\ fault = "none"
  /\ events = 0
  /\ probe \in [cmd : CodecCommands, payload : CodecPayloads, forged : {FALSE}]

\* send_frame encodes the probe; the bytes it wrote come back as input.
CodecSend ==
  /\ comm_state = "Idle"
  /\ tx_last = <<>>
  /\ LET sent == send_frame(State, probe.cmd, probe.payload, 0)
     IN Becomes([sent EXCEPT !.rx = sent.tx_out, !.comm_state = "QueryStx",
                             !.result = "Busy"])
  /\ UNCHANGED <<events, probe>>

\* A frame around the probe with ENQ where the checksum goes, whatever the
\* sum is.  The body has no ETX, so that ENQ is the byte before the ETX that
\* the receiver takes for the end.
CodecForge ==
  /\ comm_state = "Idle"
  /\ tx_last = <<>>
  /\ \A i \in 1..Len(probe.cmd \o probe.payload) : (probe.cmd \o probe.payload)[i] # ETX
  /\ LET bytes == <<STX>> \o probe.cmd \o probe.payload \o <<ENQ, ETX>>
     IN Becomes([State EXCEPT !.rx = bytes, !.tx_last = bytes, !.response = <<>>,
                              !.comm_state = "QueryStx", !.result = "Busy"])
  /\ probe' = [probe EXCEPT !.forged = TRUE]
  /\ UNCHANGED events

\* The next byte is read and handed to handle_rx.
CodecFeed ==
  /\ fault = "none"
  /\ comm_state \in {"QueryStx", "QueryEtx"}
  /\ rx # <<>>
  /\ Becomes(handle_rx([State EXCEPT !.rx = Tail(@), !.tx_out = <<>>], Head(rx)))
  /\ UNCHANGED <<events, probe>>

NextCodec ==
  \/ CodecSend
  \/ CodecForge
  \/ CodecFeed

SpecCodec == CodecInit /\ [][NextCodec]_vars

\* The numeric codec on its own: a number is drawn, the unit's encoding of
\* it is built (ones, tens, hundreds as ASCII digits, then '-' or '+') and
\* bytes_to_num decodes the four bytes.
NumDomain == -999..999

Abs(n) == IF n < 0 THEN -n ELSE n

NumBytes(n) ==
  << 48 + (Abs(n) % 10),
     48 + ((Abs(n) \div 10) % 10),
     48 + ((Abs(n) \div 100) % 10),
     IF n < 0 THEN 45 ELSE 43 >>

NumInit ==
  /\ comm_state = "Idle"
  /\ cooldown_length = 0
  /\ since = 0
  /\ response = <<>>
  /\ rx = <<>>
  /\ tx_out = <<>>
  /\ tx_last = <<>>
  /\ result = "None"
  /\ queries = InitQueries
  /\ current_query = 1
  /\ tx_command = <<>>
  /\ activate_climate = FALSE
  /\ activate_swing_mode = FALSE
  /\ refresh_state = FALSE
  /\ pending = [power_on |-> FALSE, mode |-> 48, setpoint |-> 0, fan |-> 65,
                swing_v |-> FALSE, swing_h |-> FALSE]
  /\ active = [power_on |-> FALSE, mode |-> 48, setpoint |-> 0, fan |-> 65,
               swing_v |-> FALSE, swing_h |-> FALSE]
  /\ sensors = [temp_inside |-> 0, temp_outside |-> 0, temp_coil |-> 0,
                fan_rpm |-> 0, compressor_hz |-> 0, swing_vertical_angle |-> 0]
  /\ support = {}
  /\ ready = {}
  /\ fault = "none"
  /\ events = 0
  /\ probe \in [n : NumDomain, bytes : {<<>>}, num : {0}, stage : {"drawn"}]

NumEncode ==
  /\ probe.stage = "drawn"
  /\ probe' = [probe EXCEPT !.bytes = NumBytes(probe.n), !.stage = "encoded"]
  /\ UNCHANGED <<comm_state, cooldown_length, since, response, rx, tx_out, tx_last,
                 result, queries, current_query, tx_command, activate_climate,
                 activate_swing_mode, refresh_state, pending, active, sensors,
                 support, ready, fault, events>>

NumDecode ==
  /\ probe.stage = "encoded"
  /\ probe' = [probe EXCEPT !.num = bytes_to_num(probe.bytes, 4), !.stage = "decoded"]
  /\ UNCHANGED <<comm_state, cooldown_length, since, response, rx, tx_out, tx_last,
                 result, queries, current_query, tx_command, activate_climate,
                 activate_swing_mode, refresh_state, pending, active, sensors,
                 support, ready, fault, events>>

NextNum ==
  \/ NumEncode
  \/ NumDecode

SpecNum == NumInit /\ [][NextNum]_vars

\* ------------------------------------------------------------ properties

\* The link states in which a frame awaits its response.
RxStates == {"QueryAck", "CommandAck", "QueryStx", "QueryEtx"}

\* The bytes a step wrote are a frame (and not the ACK that answers one).
IsFrame(bytes) == bytes # <<>> /\ bytes[1] = STX

\* The step is a tick that ends an exchange with the transport result res.
EndsExchange(res) ==
  comm_state \in RxStates /\ comm_state' \notin RxStates /\ result' = res

\* The response code parse_ack dispatches on: the leading bytes of the
\* response buffer, or the transmitted command when the buffer is empty.
RCode(resp, cmd) == IF resp = <<>> THEN cmd ELSE Take(resp, Len(cmd))

\* C1: a setting request is not lost.  A pending request is dropped, other
\* than by a transport Error, only once a D1 (resp. D5) frame encoding the
\* requested values has been transmitted.
C1_RequestNotLost ==
  [][ /\ (activate_climate /\ ~activate_climate' /\ result' # "Error")
           => tx_last' = Frame(D1, ClimatePayload(pending'))
      /\ (activate_swing_mode /\ ~activate_swing_mode' /\ result' # "Error")
           => tx_last' = Frame(D5, SwingPayload(pending')) ]_vars

\* C2, as claimed: a pending-activation flag changes from true to false only
\* in the step that processes the transport Ack of its own command frame.
C2_ClearedOnlyByOwnAck ==
  [][ /\ (activate_climate /\ ~activate_climate')
           => (comm_state = "CommandAck" /\ result' = "Ack" /\ tx_command = D1)
      /\ (activate_swing_mode /\ ~activate_swing_mode')
           => (comm_state = "CommandAck" /\ result' = "Ack" /\ tx_command = D5) ]_vars

\* C2, amended: a pending-activation flag changes from true to false only in
\* a tick that ends an exchange with Error, or that ends it with Ack or Nak
\* and dispatches on the code of the flag's command (D1, D5): the command
\* was the frame transmitted, or a query's answer carried that code.
C2_ClearedOnlyByCodeOrError ==
  [][ /\ (activate_climate /\ ~activate_climate')
           => \/ EndsExchange("Error")
              \/ (EndsExchange("Ack") \/ EndsExchange("Nak"))
                   /\ RCode(response', tx_command) = D1
      /\ (activate_swing_mode /\ ~activate_swing_mode')
           => \/ EndsExchange("Error")
              \/ (EndsExchange("Ack") \/ EndsExchange("Nak"))
                   /\ RCode(response', tx_command) = D5 ]_vars

\* A Nak of the D1 command has just cleared the climate flag.
C2_Witness ==
  /\ result = "Nak"
  /\ comm_state = "Cooldown"
  /\ tx_command = D1
  /\ tx_last = Frame(D1, ClimatePayload(pending))
  /\ ~activate_climate

\* C3: at most one frame is outstanding.  A frame is written only by a tick
\* whose service() reported Idle, from a link that was Idle or had finished
\* its cooldown, and it leaves the link awaiting the response; the link
\* stops awaiting it only with a terminal result (or by faulting).
C3_OneOutstanding ==
  [][ /\ IsFrame(tx_out')
           => /\ comm_state \in {"Idle", "Cooldown"}
              /\ result' = "Idle"
              /\ comm_state' \in {"QueryAck", "CommandAck"}
      /\ (comm_state \in RxStates /\ comm_state' \notin RxStates)
           => result' \in {"Ack", "Nak", "Error", "Timeout"} ]_vars

\* A tick has run while a frame was outstanding and a request was pending,
\* and has written nothing.
C3_Witness ==
  /\ comm_state \in RxStates
  /\ activate_climate
  /\ result = "Busy"
  /\ tx_out = <<>>
  /\ tx_last # Frame(D1, ClimatePayload(pending))

\* C4: the query cursor is at end-of-pool or at an index of the pool.
C4_CursorInRange ==
  current_query >= 1 /\ current_query <= EndOf(queries)

\* C5: a Nak for the query at the cursor removes exactly that entry: the
\* code is gone, the others keep their order, and the cursor keeps its
\* index, which now denotes the entry that followed (or end).
C5_NakRemovesCursorEntry ==
  [][ ( /\ EndsExchange("Nak")
        /\ current_query # EndOf(queries)
        /\ tx_command = queries[current_query] )
      => /\ queries' = Erase(queries, current_query)
         /\ Len(queries') = Len(queries) - 1
         /\ \A i \in 1..Len(queries') : queries'[i] # tx_command
         /\ current_query' = current_query
         /\ \/ current_query' = EndOf(queries')
            \/ queries'[current_query'] = queries[current_query + 1] ]_vars

\* The second query of the pool has been rejected: F5 is gone and the cursor
\* denotes F9.
C5_Witness ==
  /\ result = "Nak"
  /\ tx_command = F5
  /\ queries = <<F1, F9, Rd, RH, RI, Ra, RL, RG>>
  /\ current_query = 2

\* C6, as claimed: with a climate request pending, the frame an Idle tick
\* transmits is the D1 command; a query transmitted during a scan is the one
\* at the cursor, with no climate request pending; and during a scan the
\* request stops being pending only by the command's Ack, the cursor and the
\* pool as they were.
C6_ResumesOnlyAfterAck ==
  [][ /\ (activate_climate /\ IsFrame(tx_out'))
           => tx_out' = Frame(D1, ClimatePayload(pending))
      /\ (IsFrame(tx_out') /\ comm_state' = "QueryAck" /\ current_query # EndOf(queries))
           => (~activate_climate /\ tx_out' = Frame(queries[current_query], <<>>))
      /\ (activate_climate /\ ~activate_climate' /\ current_query # EndOf(queries))
           => /\ EndsExchange("Ack")
              /\ tx_command = D1
              /\ response' = <<>>
              /\ current_query' = current_query
              /\ queries' = queries ]_vars

\* C6, amended: with a climate request pending, the frame an Idle tick
\* transmits is the D1 command and never a query; a query transmitted during
\* a scan is the one at the cursor.  During a scan the request
\* stops being pending in one of three ways: the D1 exchange ends with Ack
\* or Nak, the cursor and the pool as they were (the scan resumes there);
\* an exchange ends with Error, the cursor at end and a refresh requested
\* (the scan restarts); or a query's answer carries the code D1, the cursor
\* advanced by one as for any answer.
C6_PriorityThenResumeOrRestart ==
  [][ /\ (activate_climate /\ IsFrame(tx_out'))
           => tx_out' = Frame(D1, ClimatePayload(pending))
      /\ (IsFrame(tx_out') /\ comm_state' = "QueryAck" /\ current_query # EndOf(queries))
           => (~activate_climate /\ tx_out' = Frame(queries[current_query], <<>>))
      /\ (activate_climate /\ ~activate_climate' /\ current_query # EndOf(queries))
           => \/ /\ EndsExchange("Ack") \/ EndsExchange("Nak")
                 /\ tx_command = D1
                 /\ response' = <<>>
                 /\ current_query' = current_query
                 /\ queries' = queries
              \/ /\ EndsExchange("Error")
                 /\ current_query' = EndOf(queries')
                 /\ refresh_state'
              \/ /\ EndsExchange("Ack")
                 /\ tx_command # D1
                 /\ RCode(response', tx_command) = D1
                 /\ current_query' = current_query + 1
                 /\ queries' = queries ]_vars

\* The first query was answered, a climate request went out ahead of the
\* second and has been acknowledged: the cursor still denotes the second.
C6_Witness ==
  /\ result = "Ack"
  /\ tx_command = D1
  /\ tx_last = Frame(D1, ClimatePayload(pending))
  /\ response = <<>>
  /\ ~activate_climate
  /\ refresh_state
  /\ current_query = 2
  /\ queries = InitQueries

\* C9: no byte sequence of the peer makes the driver access a buffer out of
\* range.
C9_NoFatalState == fault = "none"

\* The response code that sets each readiness bit.
ReadyCode(bit) ==
  CASE bit = "Basic" -> <<71, 49>>
    [] bit = "Swing" -> <<71, 53>>
    [] bit = "Compressor" -> <<83, 100>>

\* C10: a readiness bit is never cleared; it is set only by a tick that ends
\* an exchange with Ack and decodes the bit's response code (G1, G5, Sd),
\* and every such tick sets it.  So is_ready() holds exactly when each of the
\* three codes has been decoded at least once.
C10_ReadinessBits ==
  [][ /\ ready \subseteq ready'
      /\ \A bit \in ReadyBits :
           /\ (bit \in ready' /\ bit \notin ready)
                => (EndsExchange("Ack") /\ RCode(response', tx_command) = ReadyCode(bit))
           /\ (EndsExchange("Ack") /\ fault' = "none"
                 /\ RCode(response', tx_command) = ReadyCode(bit))
                => bit \in ready' ]_vars

\* The compressor answer has just set the last of the three bits.
C10_Witness ==
  /\ is_ready(State)
  /\ result = "Ack"
  /\ RCode(response, tx_command) = ReadyCode("Compressor")

\* The command and payload of the probe, and whether feeding is over: the
\* input is used up, or the receiver has left the receiving states.
ProbeBody == probe.cmd \o probe.payload

HasETX(s) == \E i \in 1..Len(s) : s[i] = ETX

Fed ==
  /\ tx_last # <<>>
  /\ \/ rx = <<>>
     \/ comm_state \notin {"QueryStx", "QueryEtx"}
     \/ fault # "none"

\* C7, as claimed: for every command up to the maximum length and every
\* 4-byte payload, the bytes send_frame emits, fed to the receiver from
\* QueryStx, end in Ack with the response buffer holding command and payload.
C7_RoundTripAll ==
  (Fed /\ ~probe.forged)
    => (result = "Ack" /\ fault = "none" /\ rx = <<>> /\ response = ProbeBody)

\* C7, amended: the same, for the commands and payloads that hold no ETX
\* byte and whose 8-bit sum is not ETX.
C7_RoundTripNoETX ==
  (Fed /\ ~probe.forged /\ ~HasETX(ProbeBody) /\ Sum8(ProbeBody) # ETX)
    => (result = "Ack" /\ fault = "none" /\ rx = <<>> /\ response = ProbeBody)

\* A frame whose sum is STX, sent with the escaped checksum, has come back
\* whole.
C7_Witness ==
  /\ Fed
  /\ ~probe.forged
  /\ Len(probe.cmd) = S21_MAX_COMMAND_SIZE
  /\ Sum8(ProbeBody) = STX
  /\ result = "Ack"
  /\ response = ProbeBody

\* The checksum position of the frame on the wire.
WireChecksum == tx_last[Len(tx_last) - 1]

\* C8, as claimed: send_frame transmits ENQ as the checksum when the 8-bit
\* sum of command and payload is STX and the sum otherwise; the receiver
\* accepts a frame whose checksum byte is ENQ exactly when the sum is STX.
C8_EscapeLawOnlySTX ==
  /\ (tx_last # <<>> /\ ~probe.forged)
       => WireChecksum = (IF Sum8(ProbeBody) = STX THEN ENQ ELSE Sum8(ProbeBody))
  /\ (Fed /\ probe.forged)
       => (result = "Ack" <=> Sum8(ProbeBody) = STX)

\* C8, amended: the sender as claimed; the receiver accepts a frame whose
\* checksum byte is ENQ exactly when the sum is STX or is ENQ itself.
C8_EscapeLaw ==
  /\ (tx_last # <<>> /\ ~probe.forged)
       => WireChecksum = (IF Sum8(ProbeBody) = STX THEN ENQ ELSE Sum8(ProbeBody))
  /\ (Fed /\ probe.forged)
       => (result = "Ack" <=> Sum8(ProbeBody) \in {STX, ENQ})

\* A frame whose sum is STX and whose checksum byte is ENQ has been accepted.
C8_Witness ==
  /\ Fed
  /\ probe.forged
  /\ Sum8(ProbeBody) = STX
  /\ WireChecksum = ENQ
  /\ result = "Ack"

\* C11: a rejected command is not retried.  A tick that ends the exchange of
\* a D1 (resp. D5) command frame with Nak clears the command's flag and
\* requests a refresh, the pool and the cursor as they were, whether or not
\* a scan is in progress; and a command frame is transmitted only while its
\* flag is set.
C11_NakCommandNotRetried ==
  [][ /\ (EndsExchange("Nak") /\ comm_state = "CommandAck" /\ tx_command = D1)
           => /\ ~activate_climate'
              /\ refresh_state'
              /\ queries' = queries
              /\ current_query' = current_query
      /\ (EndsExchange("Nak") /\ comm_state = "CommandAck" /\ tx_command = D5)
           => /\ ~activate_swing_mode'
              /\ refresh_state'
              /\ queries' = queries
              /\ current_query' = current_query
      /\ (IsFrame(tx_out') /\ tx_command' = D1) => activate_climate
      /\ (IsFrame(tx_out') /\ tx_command' = D5) => activate_swing_mode ]_vars

\* C12: a tick that ends an exchange with Error moves the cursor to end,
\* clears both activation flags and requests a refresh; the pool, the active
\* state, the sensors and the capability flags stay as they were; the link
\* is in Cooldown for the error interval, and a link in Cooldown transmits
\* a frame only in a tick at which more than its interval has elapsed (the
\* clock advances by at most one unit between two ticks).
C12_ErrorAbortsScan ==
  [][ /\ EndsExchange("Error")
           => /\ current_query' = EndOf(queries')
              /\ ~activate_climate'
              /\ ~activate_swing_mode'
              /\ refresh_state'
              /\ queries' = queries
              /\ active' = active
              /\ sensors' = sensors
              /\ support' = support
              /\ comm_state' = "Cooldown"
              /\ cooldown_length' = S21_ERROR_TIMEOUT
              /\ ~IsFrame(tx_out')
      /\ (comm_state = "Cooldown" /\ IsFrame(tx_out'))
           => since + 1 > cooldown_length ]_vars

\* An Error has ended a scan that had decoded an answer and dropped a
\* climate request.
C12_Witness ==
  /\ result = "Error"
  /\ comm_state = "Cooldown"
  /\ cooldown_length = S21_ERROR_TIMEOUT
  /\ current_query = EndOf(queries)
  /\ pending.mode # 48
  /\ ~activate_climate
  /\ refresh_state
  /\ ready # {}

\* The command code tx_next would transmit from the driver state d on an
\* Idle link (<<>> when it would transmit nothing).
Selects(d) ==
  LET sent == tx_next([d EXCEPT !.comm_state = "Idle", !.tx_out = <<>>], 0, Garbage)
  IN IF IsFrame(sent.tx_out) THEN sent.tx_command ELSE <<>>

\* What a Timeout leaves alone.
TimeoutKeeps ==
  /\ comm_state' = "Idle"
  /\ queries' = queries
  /\ current_query' = current_query
  /\ activate_climate' = activate_climate
  /\ activate_swing_mode' = activate_swing_mode
  /\ refresh_state' = refresh_state
  /\ pending' = pending
  /\ active' = active
  /\ sensors' = sensors
  /\ support' = support
  /\ ready' = ready
  /\ tx_command' = tx_command
  /\ ~IsFrame(tx_out')

\* C13, as claimed: a tick that ends an exchange with Timeout makes the link
\* Idle and changes nothing else, and the frame the next Idle tick selects
\* is the one that timed out.
C13_TimeoutRetriesSame ==
  [][ EndsExchange("Timeout")
        => (TimeoutKeeps /\ Selects(State) = tx_command) ]_vars

\* C13, amended: a tick that ends an exchange with Timeout makes the link
\* Idle and changes nothing else; the next Idle tick selects the pending
\* command if an activation is pending (climate before swing), and otherwise,
\* the cursor denoting a pool entry, the query still at the cursor, which is
\* the one that timed out.  (The scheduling state being unchanged, the
\* selection is computed from the state before the tick.)
C13_TimeoutKeepsSchedule ==
  [][ EndsExchange("Timeout")
        => /\ TimeoutKeeps
           /\ activate_climate => Selects(State) = D1
           /\ (~activate_climate /\ activate_swing_mode) => Selects(State) = D5
           /\ (~activate_climate /\ ~activate_swing_mode /\ current_query <= Len(queries))
                => /\ Selects(State) = tx_command
                   /\ tx_command = queries[current_query]
           /\ (tx_command = D1 => activate_climate)
           /\ (tx_command = D5 => activate_swing_mode) ]_vars

\* A query has timed out with nothing pending: the link is Idle and the
\* cursor still denotes it.
C13_Witness ==
  /\ result = "Timeout"
  /\ comm_state = "Idle"
  /\ ~activate_climate
  /\ ~activate_swing_mode
  /\ current_query = 2
  /\ tx_command = F5
  /\ queries[current_query] = tx_command

\* The response codes of the basic state and of the fan mode.
G1 == <<71, 49>>
SG == <<83, 71>>

\* C14: support_RG is never cleared and is set only by a decoded SG
\* response; a decoded G1 response sets power, mode and setpoint from its
\* payload, and sets active.fan from the fourth payload byte exactly while
\* support_RG is false: with support_RG true it leaves active.fan alone.
C14_FanGating ==
  [][ /\ ("RG" \in support => "RG" \in support')
      /\ ("RG" \in support' /\ "RG" \notin support)
           => (EndsExchange("Ack") /\ RCode(response', tx_command) = SG)
      /\ (EndsExchange("Ack") /\ RCode(response', tx_command) = SG)
           => "RG" \in support'
      /\ (EndsExchange("Ack") /\ RCode(response', tx_command) = G1
            /\ Len(response') = Len(G1) + S21_PAYLOAD_SIZE)
           => /\ active'.power_on = (response'[3] = 49)
              /\ active'.mode = response'[4]
              /\ active'.setpoint = (response'[5] - 28) * 5
              /\ active'.fan = (IF "RG" \in support THEN active.fan ELSE response'[6]) ]_vars

\* With the fan mode known (quiet), a basic-state response that reports
\* fan 3 has been decoded and has left the fan mode alone.
C14_Witness ==
  /\ "RG" \in support
  /\ result = "Ack"
  /\ RCode(response, tx_command) = G1
  /\ response[6] = 51
  /\ active.fan = 66
  /\ active.power_on
  /\ active.setpoint = 250

\* C15: for every integer n in [-999, 999], bytes_to_num with length 4
\* applied to the encoding of n returns n.
C15_NumInverse ==
  probe.stage = "decoded" => probe.num = probe.n

\* A negative number of three digits has been encoded and decoded.
C15_Witness ==
  /\ probe.stage = "decoded"
  /\ probe.n = -907
  /\ probe.bytes = <<55, 48, 57, 45>>
  /\ probe.num = -907

\* Whether a code is in a pool.
InPool(code, q) == \E i \in 1..Len(q) : q[i] = code

\* The step starts a fresh scan: tx_next consumes the refresh request.
StartsScan == result' = "Idle" /\ refresh_state /\ ~refresh_state'

Confirmed == {"RH", "Ra"} \subseteq support

\* C16: F9 leaves the pool by pruning only at the start of a fresh scan
\* (refresh requested, cursor at end) with support_RH and support_Ra both
\* true; a scan that starts with both true has no F9 in its pool, one that
\* starts with either false has the pool it had; F9 does not come back; and
\* with both flags true and F9 out of the pool no F9 frame is transmitted.
C16_PruneF9 ==
  [][ /\ (InPool(F9, queries) /\ ~InPool(F9, queries'))
           => \/ (EndsExchange("Nak") /\ tx_command = F9)
              \/ (StartsScan /\ current_query = EndOf(queries) /\ Confirmed)
      /\ (StartsScan /\ Confirmed) => ~InPool(F9, queries')
      /\ (StartsScan /\ ~Confirmed) => queries' = queries
      /\ ~InPool(F9, queries) => ~InPool(F9, queries')
      /\ (Confirmed /\ ~InPool(F9, queries) /\ IsFrame(tx_out'))
           => tx_command' # F9 ]_vars

\* The link states in which a query frame awaits its response.
QueryStates == {"QueryAck", "QueryStx", "QueryEtx"}

\* C19: while a query frame awaits its response the cursor denotes a pool
\* entry and the transmitted command is that entry; so a Nak for a query
\* removes the entry at the cursor, the comparison of handle_nak having read
\* an entry of the pool.
C19_QueryAtCursor ==
  [][ /\ comm_state' \in QueryStates
           => /\ current_query' <= Len(queries')
              /\ tx_command' = queries'[current_query']
      /\ (EndsExchange("Nak") /\ comm_state \in QueryStates)
           => /\ fault' = "none"
              /\ queries' = Erase(queries, current_query) ]_vars

\* C20: a query frame that tx_next transmits carries a code of the pool, an
\* Idle tick reads no entry at or past end-of-pool, and with an empty pool a
\* refresh request transmits nothing.
C20_QueryFromPool ==
  [][ /\ (IsFrame(tx_out') /\ comm_state' \in QueryStates)
           => InPool(tx_command', queries')
      /\ result' = "Idle" => fault' = "none"
      /\ (queries = <<>> /\ StartsScan) => ~IsFrame(tx_out') ]_vars

\* C17: the cursor advances by exactly one on each query answer that carries
\* data and does not move on a bare command ack, Busy or Timeout; the
\* cursor goes back to the first entry only when it is at end-of-pool and a
\* refresh has been requested; and every query frame is the entry at the
\* cursor, so that within a scan the queries go out in pool order, the next
\* one only after the previous one has been answered.
C17_ScanSequence ==
  [][ /\ (EndsExchange("Ack") /\ response' # <<>>)
           => (fault' = "none" /\ current_query' = current_query + 1)
      /\ (EndsExchange("Ack") /\ response' = <<>>)
           => current_query' = current_query
      /\ result' \in {"Busy", "Timeout"}
           => current_query' = current_query
      /\ current_query' < current_query
           => /\ current_query = EndOf(queries)
              /\ StartsScan
              /\ current_query' = 1
      /\ (IsFrame(tx_out') /\ comm_state' \in QueryStates)
           => /\ current_query' <= Len(queries')
              /\ tx_out' = Frame(queries'[current_query'], <<>>) ]_vars

\* C18: a tick that reports Ack with an empty response buffer ends the
\* exchange of a command (D1 or D5, sent with its payload), and a tick that
\* reports Ack for a query leaves a non-empty response buffer and, where
\* parse_ack runs to its end, advances the cursor by one.
C18_EmptyResponseIsCommandAck ==
  [][ /\ (EndsExchange("Ack") /\ response' = <<>>)
           => /\ comm_state = "CommandAck"
              /\ tx_command \in {D1, D5}
              /\ Len(tx_last) > Len(Frame(tx_command, <<>>))
      /\ (EndsExchange("Ack") /\ comm_state \in QueryStates)
           => /\ response' # <<>>
              /\ fault' = "none" => current_query' = current_query + 1 ]_vars

\* C21: every exchange terminates: from a state in which a frame is
\* outstanding or the link is cooling down, with loop() called again and
\* again while the clock advances, the link becomes Idle, whatever bytes the
\* unit sends.
C21_ExchangeTerminates == (comm_state # "Idle") ~> (comm_state = "Idle")

====
